---- MODULE Spec2Model ----
(***************************************************************************)
(* Translation workflow of Agentic_rag/langgraph_L/demo.py: a LangGraph    *)
(* state machine  intent -> translate_{en,ja,fr} -> eval -> (retry | end). *)
(*                                                                         *)
(* A Python str is modelled as a Text: a sequence of chunks, where a chunk *)
(* is either one whitespace character or a maximal piece of text that has  *)
(* no whitespace at its ends.  The TypedDict state is a function whose     *)
(* DOMAIN is the set of keys present; a node returns a partial update that *)
(* is merged over the state (update @@ state), as LangGraph does.          *)
(***************************************************************************)
EXTENDS Integers, Sequences, FiniteSets, TLC

VARIABLES
    state,        \* the TranslationState dict threaded through the nodes
    pc,           \* the node the graph runs next, or "end"
    input,        \* the dict handed to app.invoke
    calls,        \* number of model.invoke calls made, per call site
    lastResp,     \* content the generator returned to the latest eval_node
    lastVerdict,  \* the dict the latest eval_node returned
    prevVerdict,  \* the dict the eval_node before that returned
    verdicts,     \* evaluation_ok of every eval_node run so far, in order
    prompt,       \* user_content of the latest Translator call
    lastOutput,   \* translation the latest Translator call returned
    chosen,       \* the translate node the intent step routed to
    lastClassified, \* content the generator returned to the fallback classification call
    evalPrompt,   \* user content of the latest Evaluator call
    sessions      \* the sessions of the concurrent specification

vars == <<state, pc, input, calls, lastResp, lastVerdict, prevVerdict, verdicts, prompt,
          lastOutput, chosen, lastClassified, evalPrompt, sessions>>

----------------------------------------------------------------------------
(* Bounds of the model *)

MaxMaxAttempts == 3
MaxNegative == 1
MaxInitAttempts == 2
\* no session of these bounds takes attempts beyond this; caps the counter
ConcMaxAttempts == 2
AttemptsCap == (IF MaxInitAttempts + 1 > MaxMaxAttempts THEN MaxInitAttempts + 1 ELSE MaxMaxAttempts) + 1

----------------------------------------------------------------------------
(* Python strings *)

Whitespace == {" ", "\n"}

RECURSIVE lstrip(_)
lstrip(t) ==
    IF t = <<>> THEN t
    ELSE IF Head(t) \in Whitespace THEN lstrip(Tail(t)) ELSE t

RECURSIVE rstrip(_)
rstrip(t) ==
    IF t = <<>> THEN t
    ELSE IF t[Len(t)] \in Whitespace THEN rstrip(SubSeq(t, 1, Len(t) - 1)) ELSE t

strip(t) == rstrip(lstrip(t))

LowerChunk(c) ==
    CASE c = "French" -> "french"
      [] c = "FRENCH" -> "french"
      [] c = "Français" -> "français"
      [] c = "Japanese" -> "japanese"
      [] c = "English" -> "english"
      [] c = "ENGLISH" -> "english"
      [] c = "EN" -> "en"
      [] c = "Ja" -> "ja"
      [] c = "FR" -> "fr"
      [] OTHER -> c

lower(t) == [i \in DOMAIN t |-> LowerChunk(t[i])]

\* Python's  sub in t  for strings
In(sub, t) ==
    \E i \in 0..(Len(t) - Len(sub)) : SubSeq(t, i + 1, i + Len(sub)) = sub

\* dict.get(key, default)
Get(d, key, default) == IF key \in DOMAIN d THEN d[key] ELSE default

None == <<"<None>">>

----------------------------------------------------------------------------
(* Language Classifier: keyword rules *)

\* the hiragana keyword of line 33 (ni-ho-n-go), written in ASCII
Nihongo == "hiragana:nihongo"

\* variant: the English rule is tried before the Japanese one
_detect_target_lang_rule_en_first(query) ==
    LET q == lower(query) IN
    IF In(<<"法语">>, query) \/ In(<<"法文">>, query) \/ In(<<"french">>, q) \/ In(<<"français">>, q)
    THEN <<"fr">>
    ELSE IF In(<<"英语">>, query) \/ In(<<"英文">>, query) \/ In(<<"english">>, q)
    THEN <<"en">>
    ELSE IF In(<<"日语">>, query) \/ In(<<"日文">>, query) \/ In(<<"japanese">>, q) \/ In(<<Nihongo>>, q)
    THEN <<"ja">>
    ELSE None

_detect_target_lang_rule(query) ==
    LET q == lower(query) IN
    IF In(<<"法语">>, query) \/ In(<<"法文">>, query) \/ In(<<"french">>, q) \/ In(<<"français">>, q)
    THEN <<"fr">>
    ELSE IF In(<<"日语">>, query) \/ In(<<"日文">>, query) \/ In(<<"japanese">>, q) \/ In(<<Nihongo>>, q)
    THEN <<"ja">>
    ELSE IF In(<<"英语">>, query) \/ In(<<"英文">>, query) \/ In(<<"english">>, q)
    THEN <<"en">>
    ELSE None

----------------------------------------------------------------------------
(* Python values produced by json.loads, and the conversions eval_node     *)
(* applies to them                                                         *)

PyNull == [t |-> "NoneType"]
PyBool(b) == [t |-> "bool", b |-> b]
PyInt(n) == [t |-> "int", n |-> n]
PyStr(s) == [t |-> "str", s |-> s]
PyList(n) == [t |-> "list", n |-> n]
PyDict(d) == [t |-> "dict", d |-> d]

\* the JSON documents the generator is taken to answer with, and their values
JsonDocs ==
    [ d \in {
        "{\"ok\": true, \"feedback\": \"\"}",
        "{\"ok\": true, \"feedback\": \"good\"}",
        "{\"ok\": false, \"feedback\": \"fix A\"}",
        "{\"ok\": false, \"feedback\": \" fix B \"}",
        "{\"ok\": false, \"feedback\": \" \"}",
        "{\"ok\": \"false\", \"feedback\": \"fix A\"}",
        "{\"ok\": 1}",
        "{\"ok\": 0, \"feedback\": null}",
        "{\"ok\": [0], \"feedback\": \"fix A\"}",
        "{\"feedback\": \"fix C\"}",
        "[true]",
        "null",
        "1",
        "\"ok\"" } |->
      CASE d = "{\"ok\": true, \"feedback\": \"\"}" ->
             PyDict([ok |-> PyBool(TRUE), feedback |-> PyStr(<<>>)])
        [] d = "{\"ok\": true, \"feedback\": \"good\"}" ->
             PyDict([ok |-> PyBool(TRUE), feedback |-> PyStr(<<"good">>)])
        [] d = "{\"ok\": false, \"feedback\": \"fix A\"}" ->
             PyDict([ok |-> PyBool(FALSE), feedback |-> PyStr(<<"fix A">>)])
        [] d = "{\"ok\": false, \"feedback\": \" fix B \"}" ->
             PyDict([ok |-> PyBool(FALSE), feedback |-> PyStr(<<" ", "fix B", " ">>)])
        [] d = "{\"ok\": false, \"feedback\": \" \"}" ->
             PyDict([ok |-> PyBool(FALSE), feedback |-> PyStr(<<" ">>)])
        [] d = "{\"ok\": \"false\", \"feedback\": \"fix A\"}" ->
             PyDict([ok |-> PyStr(<<"false">>), feedback |-> PyStr(<<"fix A">>)])
        [] d = "{\"ok\": 1}" ->
             PyDict([ok |-> PyInt(1)])
        [] d = "{\"ok\": 0, \"feedback\": null}" ->
             PyDict([ok |-> PyInt(0), feedback |-> PyNull])
        [] d = "{\"ok\": [0], \"feedback\": \"fix A\"}" ->
             PyDict([ok |-> PyList(1), feedback |-> PyStr(<<"fix A">>)])
        [] d = "{\"feedback\": \"fix C\"}" ->
             PyDict([feedback |-> PyStr(<<"fix C">>)])
        [] d = "[true]" -> PyList(1)
        [] d = "null" -> PyNull
        [] d = "1" -> PyInt(1)
        [] d = "\"ok\"" -> PyStr(<<"ok">>) ]

\* json.loads(text): the value, or raised = TRUE for json.JSONDecodeError
json_loads(text) ==
    IF Len(text) = 1 /\ text[1] \in DOMAIN JsonDocs
    THEN [raised |-> FALSE, value |-> JsonDocs[text[1]]]
    ELSE [raised |-> TRUE]

\* bool(v)
bool(v) ==
    CASE v.t = "NoneType" -> FALSE
      [] v.t = "bool" -> v.b
      [] v.t = "int" -> v.n # 0
      [] v.t = "str" -> Len(v.s) > 0
      [] v.t = "list" -> v.n > 0
      [] v.t = "dict" -> DOMAIN v.d # {}

\* str(v), for the values a feedback field takes here
str(v) ==
    CASE v.t = "NoneType" -> <<"None">>
      [] v.t = "bool" -> IF v.b THEN <<"True">> ELSE <<"False">>
      [] v.t = "int" -> <<ToString(v.n)>>
      [] v.t = "str" -> v.s
      [] v.t = "list" -> IF v.n = 0 THEN <<"[]">> ELSE <<"[True]">>
      [] v.t = "dict" -> <<"{...}">>

----------------------------------------------------------------------------
(* The nodes.  Each takes the state and the content the generator returns  *)
(* to its model.invoke call(s), and gives the returned update (ret)        *)
(* together with what it sent to the generator.                            *)

DefaultMaxAttempts == 3

ValidCodes == {<<"en">>, <<"ja">>, <<"fr">>}

\* variant: the fallback token is trimmed but not lower-cased
intent_node_no_lower(st, classified, extracted) ==
    LET query == st["query"]
        rule == _detect_target_lang_rule(query)
        ruleHit == rule # None /\ rule # <<>>
        resp == strip(classified)
        target_lang ==
            IF ruleHit THEN rule
            ELSE IF resp \notin ValidCodes THEN <<"en">> ELSE resp
        resp2 == strip(extracted)
    IN  [ret |-> [target_lang |-> target_lang,
                  source_text |-> resp2,
                  attempts |-> Get(st, "attempts", 0),
                  max_attempts |-> Get(st, "max_attempts", DefaultMaxAttempts),
                  evaluation_ok |-> FALSE,
                  evaluation_feedback |-> <<>>],
         invoked |-> IF ruleHit THEN <<"extract">> ELSE <<"classify", "extract">>]

\* variant: a feedback the caller passed in is kept
intent_node_keep_feedback(st, classified, extracted) ==
    LET query == st["query"]
        rule == _detect_target_lang_rule(query)
        ruleHit == rule # None /\ rule # <<>>
        resp == lower(strip(classified))
        target_lang ==
            IF ruleHit THEN rule
            ELSE IF resp \notin ValidCodes THEN <<"en">> ELSE resp
        resp2 == strip(extracted)
    IN  [ret |-> [target_lang |-> target_lang,
                  source_text |-> resp2,
                  attempts |-> Get(st, "attempts", 0),
                  max_attempts |-> Get(st, "max_attempts", DefaultMaxAttempts),
                  evaluation_ok |-> FALSE,
                  evaluation_feedback |-> Get(st, "evaluation_feedback", <<>>)],
         invoked |-> IF ruleHit THEN <<"extract">> ELSE <<"classify", "extract">>]

\* variant: the fallback classification call is made before the rules are looked at
intent_node_always_classifies(st, classified, extracted) ==
    LET query == st["query"]
        rule == _detect_target_lang_rule(query)
        ruleHit == rule # None /\ rule # <<>>
        resp == lower(strip(classified))
        target_lang ==
            IF ruleHit THEN rule
            ELSE IF resp \notin ValidCodes THEN <<"en">> ELSE resp
        resp2 == strip(extracted)
    IN  [ret |-> [target_lang |-> target_lang,
                  source_text |-> resp2,
                  attempts |-> Get(st, "attempts", 0),
                  max_attempts |-> Get(st, "max_attempts", DefaultMaxAttempts),
                  evaluation_ok |-> FALSE,
                  evaluation_feedback |-> <<>>],
         invoked |-> <<"classify", "extract">>]

intent_node(st, classified, extracted) ==
    LET query == st["query"]
        rule == _detect_target_lang_rule(query)
        ruleHit == rule # None /\ rule # <<>>
        resp == lower(strip(classified))
        target_lang ==
            IF ruleHit THEN rule
            ELSE IF resp \notin ValidCodes THEN <<"en">> ELSE resp
        resp2 == strip(extracted)
    IN  [ret |-> [target_lang |-> target_lang,
                  source_text |-> resp2,
                  attempts |-> Get(st, "attempts", 0),
                  max_attempts |-> Get(st, "max_attempts", DefaultMaxAttempts),
                  evaluation_ok |-> FALSE,
                  evaluation_feedback |-> <<>>],
         invoked |-> IF ruleHit THEN <<"extract">> ELSE <<"classify", "extract">>]

\* variant: the counter is bumped on the first-pass branch only
_translate_first_pass_count(st, target_lang, generated) ==
    LET source_text == st["source_text"]
        feedback == strip(Get(st, "evaluation_feedback", <<>>))
        attempts == Get(st, "attempts", 0) + (IF feedback # <<>> THEN 0 ELSE 1)
        user_content ==
            IF feedback # <<>>
            THEN <<"Text:\n">> \o source_text \o <<"\n\nTarget language: ">> \o target_lang
                 \o <<"\n\n", "Revise using this feedback:\n">> \o feedback
                 \o <<"\n\nOutput only the translation.">>
            ELSE <<"Text:\n">> \o source_text \o <<"\n\nTarget language: ">> \o target_lang
                 \o <<"\n\nOutput only the translation.">>
    IN  [ret |-> [translation |-> strip(generated), attempts |-> attempts],
         user_content |-> user_content]

\* variant: the Translator clears the feedback it has used
_translate_clears_feedback(st, target_lang, generated) ==
    LET source_text == st["source_text"]
        feedback == strip(Get(st, "evaluation_feedback", <<>>))
        attempts == Get(st, "attempts", 0) + 1
        user_content ==
            IF feedback # <<>>
            THEN <<"Text:\n">> \o source_text \o <<"\n\nTarget language: ">> \o target_lang
                 \o <<"\n\n", "Revise using this feedback:\n">> \o feedback
                 \o <<"\n\nOutput only the translation.">>
            ELSE <<"Text:\n">> \o source_text \o <<"\n\nTarget language: ">> \o target_lang
                 \o <<"\n\nOutput only the translation.">>
    IN  [ret |-> [translation |-> strip(generated), attempts |-> attempts,
                  evaluation_feedback |-> <<>>],
         user_content |-> user_content]

\* variant: the Translator always sends the first-pass prompt
_translate_ignores_feedback(st, target_lang, generated) ==
    LET source_text == st["source_text"]
        attempts == Get(st, "attempts", 0) + 1
        user_content ==
            <<"Text:\n">> \o source_text \o <<"\n\nTarget language: ">> \o target_lang
                 \o <<"\n\nOutput only the translation.">>
    IN  [ret |-> [translation |-> strip(generated), attempts |-> attempts],
         user_content |-> user_content]

_translate(st, target_lang, generated) ==
    LET source_text == st["source_text"]
        feedback == strip(Get(st, "evaluation_feedback", <<>>))
        attempts == Get(st, "attempts", 0) + 1
        user_content ==
            IF feedback # <<>>
            THEN <<"Text:\n">> \o source_text \o <<"\n\nTarget language: ">> \o target_lang
                 \o <<"\n\n", "Revise using this feedback:\n">> \o feedback
                 \o <<"\n\nOutput only the translation.">>
            ELSE <<"Text:\n">> \o source_text \o <<"\n\nTarget language: ">> \o target_lang
                 \o <<"\n\nOutput only the translation.">>
    IN  [ret |-> [translation |-> strip(generated), attempts |-> attempts],
         user_content |-> user_content]

translate_en_node(st, generated) == _translate(st, <<"English">>, generated)

translate_ja_node(st, generated) == _translate(st, <<"Japanese">>, generated)

translate_fr_node(st, generated) == _translate(st, <<"French">>, generated)

\* the user message eval_node sends
eval_user_content(st) ==
    <<"Target language: ">> \o st["target_lang"] \o <<"\n\n">>
    \o <<"Source:\n">> \o st["source_text"] \o <<"\n\n">>
    \o <<"Translation:\n">> \o st["translation"] \o <<"\n\n">>
    \o <<"Return JSON: {\"ok\": boolean, \"feedback\": string}. ",
         "If ok is false, feedback must be actionable.">>

\* variant: a feedback already in the state is kept
eval_node_sticky(st, generated) ==
    LET resp == strip(generated)
        loaded == json_loads(resp)
        raised == loaded.raised \/ loaded.value.t # "dict"
        data == loaded.value.d
        ok == IF raised THEN FALSE ELSE bool(Get(data, "ok", PyBool(FALSE)))
        old == strip(Get(st, "evaluation_feedback", <<>>))
        feedback ==
            IF old # <<>> THEN old
            ELSE IF raised THEN <<"Evaluator output was not valid JSON:", " ">> \o resp
            ELSE strip(str(Get(data, "feedback", PyStr(<<>>))))
    IN  [ret |-> [evaluation_ok |-> ok, evaluation_feedback |-> feedback],
         user_content |-> eval_user_content(st)]

\* variant: the diagnostic leaves the response out
eval_node_no_resp(st, generated) ==
    LET resp == strip(generated)
        loaded == json_loads(resp)
        raised == loaded.raised \/ loaded.value.t # "dict"
        data == loaded.value.d
        ok == IF raised THEN FALSE ELSE bool(Get(data, "ok", PyBool(FALSE)))
        feedback ==
            IF raised THEN <<"Evaluator output was not valid JSON:", " ">>
            ELSE strip(str(Get(data, "feedback", PyStr(<<>>))))
    IN  [ret |-> [evaluation_ok |-> ok, evaluation_feedback |-> feedback],
         user_content |-> eval_user_content(st)]

eval_node(st, generated) ==
    LET resp == strip(generated)
        loaded == json_loads(resp)
        \* json.loads raised, or data has no .get (AttributeError)
        raised == loaded.raised \/ loaded.value.t # "dict"
        data == loaded.value.d
        ok == IF raised THEN FALSE ELSE bool(Get(data, "ok", PyBool(FALSE)))
        feedback ==
            IF raised THEN <<"Evaluator output was not valid JSON:", " ">> \o resp
            ELSE strip(str(Get(data, "feedback", PyStr(<<>>))))
    IN  [ret |-> [evaluation_ok |-> ok, evaluation_feedback |-> feedback],
         user_content |-> eval_user_content(st)]

route_after_intent(st) == st["target_lang"]

\* variant: the exit test lets one more attempt through
route_after_eval_late(st) ==
    IF Get(st, "evaluation_ok", FALSE) THEN <<"end">>
    ELSE IF Get(st, "attempts", 0) > Get(st, "max_attempts", DefaultMaxAttempts) THEN <<"end">>
    ELSE st["target_lang"]

\* variant: the exit test looks at the verdict only
route_after_eval_ok_only(st) ==
    IF Get(st, "evaluation_ok", FALSE) THEN <<"end">>
    ELSE st["target_lang"]

route_after_eval(st) ==
    IF Get(st, "evaluation_ok", FALSE) THEN <<"end">>
    ELSE IF Get(st, "attempts", 0) >= Get(st, "max_attempts", DefaultMaxAttempts) THEN <<"end">>
    ELSE st["target_lang"]

\* the path maps of the two add_conditional_edges calls
IntentEdges ==
    (<<"en">> :> "translate_en") @@ (<<"ja">> :> "translate_ja") @@ (<<"fr">> :> "translate_fr")

\* variant: a retry of a Japanese session is sent to the English node
EvalEdges_crossed ==
    (<<"en">> :> "translate_en") @@ (<<"ja">> :> "translate_en") @@ (<<"fr">> :> "translate_fr")
    @@ (<<"end">> :> "end")

\* variant: a retry goes back through the intent node
EvalEdges_reintent ==
    (<<"en">> :> "intent") @@ (<<"ja">> :> "intent") @@ (<<"fr">> :> "intent")
    @@ (<<"end">> :> "end")

EvalEdges ==
    (<<"en">> :> "translate_en") @@ (<<"ja">> :> "translate_ja") @@ (<<"fr">> :> "translate_fr")
    @@ (<<"end">> :> "end")

\* LangGraph merges the update a node returns over the state
Merge(update, st) == update @@ st

----------------------------------------------------------------------------
(* What the caller passes and what the generator may answer *)

Queries ==
    { <<"say", " ", "hello", " ", "in", " ", "French">>,
      <<"bonjour", " ", "Français", " ", "to", " ", "english">>,
      <<"日语", " ", "menu", " ", "into", " ", "ENGLISH">>,
      <<"Japanese", " ", "or", " ", "法文">>,
      <<Nihongo, " ", "please">>,
      <<"英文", " ", "hello">>,
      <<"hello", " ", "there">> }

ClassifyResponses == { <<"fr">>, <<" ", "Ja", "\n">>, <<"EN">>, <<"German">>, <<>> }

ExtractResponses == { <<" ", "hello", "\n">>, <<"menu">> }

TranslateResponses == { <<"bonjour">>, <<" ", "salut", "\n">> }

EvalResponses ==
    { <<d>> : d \in DOMAIN JsonDocs }
    \cup { <<"\n", "{\"ok\": false, \"feedback\": \"fix A\"}", " ">>,
           <<"Looks", " ", "fine">>,
           <<" ", "oops", "\n">>,
           <<>> }

Inputs ==
    { q @@ a @@ m @@ f :
        q \in { [query |-> x] : x \in Queries },
        a \in { <<>> } \cup { [attempts |-> n] : n \in 0..MaxInitAttempts },
        m \in { <<>> } \cup { [max_attempts |-> n] : n \in (0 - MaxNegative)..MaxMaxAttempts },
        f \in { <<>>, [evaluation_feedback |-> <<"stale">>] } }

NoVerdict == [none |-> TRUE]

----------------------------------------------------------------------------
(* The graph *)

Init ==
    /\ input \in Inputs
    /\ state = input
    /\ pc = "intent"
    /\ calls = [classify |-> 0, extract |-> 0, translate |-> 0, eval |-> 0]
    /\ lastResp = None
    /\ lastVerdict = NoVerdict
    /\ prevVerdict = NoVerdict
    /\ verdicts = <<>>
    /\ prompt = None
    /\ lastOutput = None
    /\ chosen = "none"
    /\ lastClassified = None
    /\ evalPrompt = None
    /\ sessions = <<>>

Count(seq, x) == Cardinality({ i \in DOMAIN seq : seq[i] = x })

\* variant: the exit test is also made after intent, before the first translate
Intent_exit_when_exhausted ==
    /\ pc = "intent"
    /\ \E classified \in ClassifyResponses, extracted \in ExtractResponses :
         LET r == intent_node(state, classified, extracted)
             new == Merge(r.ret, state)
             exhausted == new["attempts"] >= new["max_attempts"]
         IN  /\ state' = new
             /\ pc' = IF exhausted THEN "end" ELSE IntentEdges[route_after_intent(new)]
             /\ chosen' = IntentEdges[route_after_intent(new)]
             /\ calls' = [calls EXCEPT !.classify = @ + Count(r.invoked, "classify"),
                                       !.extract = @ + Count(r.invoked, "extract")]
             /\ lastClassified' = IF Count(r.invoked, "classify") > 0 THEN classified ELSE None
    /\ UNCHANGED <<input, lastResp, lastVerdict, prevVerdict, verdicts, prompt, lastOutput,
                   evalPrompt, sessions>>

Intent ==
    /\ pc = "intent"
    /\ \E classified \in ClassifyResponses, extracted \in ExtractResponses :
         LET r == intent_node(state, classified, extracted)
             new == Merge(r.ret, state)
         IN  /\ state' = new
             /\ pc' = IntentEdges[route_after_intent(new)]
             /\ chosen' = IntentEdges[route_after_intent(new)]
             /\ calls' = [calls EXCEPT !.classify = @ + Count(r.invoked, "classify"),
                                       !.extract = @ + Count(r.invoked, "extract")]
             /\ lastClassified' = IF Count(r.invoked, "classify") > 0 THEN classified ELSE None
    /\ UNCHANGED <<input, lastResp, lastVerdict, prevVerdict, verdicts, prompt, lastOutput,
                   evalPrompt, sessions>>

\* variant: a translate node goes straight to end once the attempts are used up
Translated_exit_early(r) ==
    /\ Get(state, "attempts", 0) < AttemptsCap
    /\ state' = Merge(r.ret, state)
    /\ pc' = IF r.ret.attempts >= Get(state, "max_attempts", DefaultMaxAttempts)
             THEN "end" ELSE "eval"
    /\ calls' = [calls EXCEPT !.translate = @ + 1]
    /\ prompt' = r.user_content
    /\ lastOutput' = r.ret.translation
    /\ UNCHANGED <<input, lastResp, lastVerdict, prevVerdict, verdicts, chosen,
                   lastClassified, evalPrompt, sessions>>

Translated(r) ==
    /\ Get(state, "attempts", 0) < AttemptsCap
    /\ state' = Merge(r.ret, state)
    /\ pc' = "eval"
    /\ calls' = [calls EXCEPT !.translate = @ + 1]
    /\ prompt' = r.user_content
    /\ lastOutput' = r.ret.translation
    /\ UNCHANGED <<input, lastResp, lastVerdict, prevVerdict, verdicts, chosen,
                   lastClassified, evalPrompt, sessions>>

TranslateEn ==
    /\ pc = "translate_en"
    /\ \E generated \in TranslateResponses : Translated(translate_en_node(state, generated))

TranslateJa ==
    /\ pc = "translate_ja"
    /\ \E generated \in TranslateResponses : Translated(translate_ja_node(state, generated))

TranslateFr ==
    /\ pc = "translate_fr"
    /\ \E generated \in TranslateResponses : Translated(translate_fr_node(state, generated))

Eval ==
    /\ pc = "eval"
    /\ \E generated \in EvalResponses :
         LET r == eval_node(state, generated)
             new == Merge(r.ret, state)
         IN  /\ state' = new
             /\ pc' = EvalEdges[route_after_eval(new)]
             /\ lastResp' = generated
             /\ lastVerdict' = r.ret
             /\ prevVerdict' = lastVerdict
             /\ verdicts' = Append(verdicts, r.ret.evaluation_ok)
             /\ evalPrompt' = r.user_content
    /\ calls' = [calls EXCEPT !.eval = @ + 1]
    /\ UNCHANGED <<input, prompt, lastOutput, chosen, lastClassified, sessions>>

Next == Intent \/ TranslateEn \/ TranslateJa \/ TranslateFr \/ Eval

Spec == Init /\ [][Next]_vars

\* Sessions of the termination check: one query per language variant and no
\* evaluation_feedback key in the input; attempts and max_attempts as in Init.
LiveQueries ==
    { <<"say", " ", "hello", " ", "in", " ", "French">>,
      <<Nihongo, " ", "please">>,
      <<"英文", " ", "hello">> }

LiveInit ==
    /\ Init
    /\ input["query"] \in LiveQueries
    /\ "evaluation_feedback" \notin DOMAIN input

\* every generation call returns, so a node that is due to run does run
FairSpec == LiveInit /\ [][Next]_vars /\ WF_vars(Next)

----------------------------------------------------------------------------
(* Concurrent sessions: every app.invoke call runs the graph on the state  *)
(* dict it was given; the steps of the sessions interleave at the          *)
(* generation calls.  A session is [state, pc, input, log], log being the  *)
(* generator contents it has consumed.                                     *)

Sessions == {"a", "b"}

\* one step of the graph on one session
node_step(sess, resp) ==
    LET st == sess.state
        logged == Append(sess.log, resp)
    IN  CASE sess.pc = "intent" ->
               LET new == Merge(intent_node(st, resp.classified, resp.extracted).ret, st)
               IN  [sess EXCEPT !.state = new, !.log = logged,
                                !.pc = IntentEdges[route_after_intent(new)]]
          [] sess.pc = "translate_en" ->
               [sess EXCEPT !.state = Merge(translate_en_node(st, resp.generated).ret, st),
                            !.log = logged, !.pc = "eval"]
          [] sess.pc = "translate_ja" ->
               [sess EXCEPT !.state = Merge(translate_ja_node(st, resp.generated).ret, st),
                            !.log = logged, !.pc = "eval"]
          [] sess.pc = "translate_fr" ->
               [sess EXCEPT !.state = Merge(translate_fr_node(st, resp.generated).ret, st),
                            !.log = logged, !.pc = "eval"]
          [] sess.pc = "eval" ->
               LET new == Merge(eval_node(st, resp.generated).ret, st)
               IN  [sess EXCEPT !.state = new, !.log = logged,
                                !.pc = EvalEdges[route_after_eval(new)]]

\* variant: the attempt counter is one module-level counter for all sessions
invoke_step_shared_counter(all, s, resp) ==
    LET stepped == node_step(all[s], resp)
        counter == IF "attempts" \in DOMAIN stepped.state
                   THEN [attempts |-> stepped.state["attempts"]] ELSE <<>>
    IN  [t \in DOMAIN all |->
           IF t = s THEN stepped
           ELSE IF "attempts" \in DOMAIN all[t].state
                THEN [all[t] EXCEPT !.state = Merge(counter, @)]
                ELSE all[t]]

\* a step of session s: the graph works on that session's own state
invoke_step(all, s, resp) == [all EXCEPT ![s] = node_step(all[s], resp)]

ConcQueries == { <<"say", " ", "hello", " ", "in", " ", "French">>, <<"hello", " ", "there">> }

ConcInputs ==
    { [query |-> q, attempts |-> 0, max_attempts |-> m] :
        q \in ConcQueries, m \in 1..ConcMaxAttempts }

ConcEvalResponses ==
    { <<"{\"ok\": true, \"feedback\": \"\"}">>,
      <<"{\"ok\": false, \"feedback\": \"fix A\"}">>,
      <<" ", "oops", "\n">> }

\* the generator contents the step due in a session may consume
ResponsesFor(sess) ==
    IF sess.pc = "intent"
    THEN { [classified |-> <<" ", "Ja", "\n">>, extracted |-> e] : e \in ExtractResponses }
    ELSE IF sess.pc = "eval"
    THEN { [generated |-> g] : g \in ConcEvalResponses }
    ELSE { [generated |-> g] : g \in TranslateResponses }

NewSession(inp) == [state |-> inp, pc |-> "intent", input |-> inp, log |-> <<>>]

ConcInit ==
    /\ sessions \in [Sessions -> { NewSession(inp) : inp \in ConcInputs }]
    /\ state = <<>>
    /\ input = <<>>
    /\ pc = "sessions"
    /\ calls = [classify |-> 0, extract |-> 0, translate |-> 0, eval |-> 0]
    /\ lastResp = None
    /\ lastVerdict = NoVerdict
    /\ prevVerdict = NoVerdict
    /\ verdicts = <<>>
    /\ prompt = None
    /\ lastOutput = None
    /\ chosen = "none"
    /\ lastClassified = None
    /\ evalPrompt = None

ConcStep ==
    \E s \in Sessions :
        /\ sessions[s].pc # "end"
        /\ Len(sessions[s].log) < 2 * ConcMaxAttempts + 2
        /\ \E resp \in ResponsesFor(sessions[s]) :
               sessions' = invoke_step(sessions, s, resp)
        /\ UNCHANGED <<state, pc, input, calls, lastResp, lastVerdict, prevVerdict, verdicts,
                       prompt, lastOutput, chosen, lastClassified, evalPrompt>>

ConcNext == ConcStep

ConcSpec == ConcInit /\ [][ConcNext]_vars

----------------------------------------------------------------------------
(* Properties *)

Max(a, b) == IF a >= b THEN a ELSE b

\* the session was started with attempts = 0
StartedAtZero == Get(input, "attempts", 0) = 0

\* the ceiling in force: the caller's max_attempts, or the default
Ceiling == Get(input, "max_attempts", DefaultMaxAttempts)

Attempts == Get(state, "attempts", 0)

\* index of the first accepting verdict, 0 when there is none so far
FirstAccept ==
    IF \E i \in DOMAIN verdicts : verdicts[i]
    THEN CHOOSE i \in DOMAIN verdicts : verdicts[i] /\ \A j \in 1..(i - 1) : ~verdicts[j]
    ELSE 0

\* C1 as stated: in a session started with attempts = 0 and any integer
\* max_attempts supplied by the caller, the Translator is invoked at most
\* max_attempts times and attempts <= max_attempts in every reachable state.
\* (Stated for max_attempts >= 0: a negative max_attempts is already below
\* attempts = 0 when the session starts.)
C1_AttemptsWithinMaxAttempts ==
    (StartedAtZero /\ "max_attempts" \in DOMAIN input /\ input["max_attempts"] >= 0)
        => (calls.translate <= input["max_attempts"] /\ Attempts <= input["max_attempts"])

\* C1 (amended): in a session started with attempts = 0 the Translator is
\* invoked at most max(max_attempts, 1) times and attempts <= max(max_attempts, 1)
\* in every reachable state, whatever the verdicts; the first translate step
\* runs before the exit test is ever made.
C1_AttemptsWithinCeilingOrOne ==
    StartedAtZero
        => (calls.translate <= Max(Ceiling, 1) /\ Attempts <= Max(Ceiling, 1))

C1_Witness ==
    /\ pc = "end" /\ StartedAtZero
    /\ "max_attempts" \in DOMAIN input /\ input["max_attempts"] = MaxMaxAttempts
    /\ calls.translate = MaxMaxAttempts /\ Attempts = MaxMaxAttempts
    /\ ~state["evaluation_ok"]

\* C2: when every generation call returns, every session eventually reaches
\* end, whatever the verdicts, and once at end no node runs again and
\* nothing of the state changes.
C2_ReachesEndAndStays ==
    /\ <>(pc = "end")
    /\ [][pc = "end" => (pc' = "end" /\ state' = state /\ calls' = calls)]_vars

C2_Witness ==
    /\ pc = "end" /\ ~state["evaluation_ok"]
    /\ Len(verdicts) = MaxMaxAttempts /\ calls.translate = MaxMaxAttempts

\* C3: after each eval step the graph goes to end if and only if
\* evaluation_ok is true or attempts >= max_attempts, and otherwise to the
\* translate node the intent step chose.
C3_RouteAfterEval ==
    [][pc = "eval" =>
         /\ (pc' = "end") <=>
                (state'["evaluation_ok"] \/ state'["attempts"] >= state'["max_attempts"])
         /\ pc' # "end" => (pc' = chosen /\ pc' # "intent")]_vars

C3_Witness ==
    /\ pc = "translate_ja" /\ chosen = "translate_ja"
    /\ Len(verdicts) = 2 /\ ~state["evaluation_ok"]
    /\ state["attempts"] < state["max_attempts"]

\* C4: in a session started with attempts = 0, attempts equals the number of
\* Translator invocations made so far, and after N full translate->eval
\* cycles attempts = N.
C4_AttemptsCountsTranslatorCalls ==
    StartedAtZero =>
        /\ Attempts = calls.translate
        /\ pc # "eval" => Attempts = Len(verdicts)

C4_Witness ==
    /\ StartedAtZero /\ pc = "translate_fr"
    /\ calls.translate = 2 /\ Len(verdicts) = 2 /\ state["attempts"] = 2

\* C5: in a session started with attempts = 0 and max_attempts = M >= 1 whose
\* first accepting verdict is on cycle k, the final state has
\* attempts = min(k, M) and evaluation_ok = (k <= M).
C5_StopsAtFirstAcceptOrCeiling ==
    (pc = "end" /\ StartedAtZero /\ Ceiling >= 1) =>
        LET k == FirstAccept
            accepted == k # 0 /\ k <= Ceiling
        IN  /\ state["attempts"] = (IF accepted THEN k ELSE Ceiling)
            /\ state["evaluation_ok"] = accepted

C5_Witness ==
    /\ pc = "end" /\ StartedAtZero /\ Ceiling = 3
    /\ verdicts = <<FALSE, FALSE, TRUE>>
    /\ state["attempts"] = 3 /\ state["evaluation_ok"]

\* an eval step has just run and routed
JustEvaluated == verdicts # <<>> /\ pc # "eval"

\* where the graph goes after a rejection
RejectionRoute == IF state["attempts"] >= state["max_attempts"] THEN "end" ELSE chosen

\* the state with the keys of an earlier verdict removed
WithoutVerdict(st) ==
    [k \in DOMAIN st \ {"evaluation_ok", "evaluation_feedback"} |-> st[k]]

\* C6: when the Evaluator rejects on every one of the max_attempts attempts
\* (session started with attempts = 0, max_attempts >= 1), the session is at
\* end with attempts = max_attempts, evaluation_ok = false, evaluation_feedback
\* the feedback of the last rejection, which is the verdict on the last
\* response alone, and translation the output of the last Translator call.
C6_ExhaustionIsTerminalOutcome ==
    (StartedAtZero /\ Ceiling >= 1 /\ Len(verdicts) = Ceiling
       /\ \A i \in DOMAIN verdicts : ~verdicts[i]) =>
        /\ pc = "end"
        /\ state["attempts"] = Ceiling
        /\ state["evaluation_ok"] = FALSE
        /\ state["evaluation_feedback"] = lastVerdict["evaluation_feedback"]
        /\ lastVerdict = eval_node(WithoutVerdict(state), lastResp).ret
        /\ state["translation"] = lastOutput
        /\ calls.translate = Ceiling

C6_Witness ==
    /\ pc = "end" /\ StartedAtZero /\ Ceiling = 3
    /\ verdicts = <<FALSE, FALSE, FALSE>>
    /\ prevVerdict["evaluation_feedback"] = <<"fix A">>
    /\ state["evaluation_feedback"] = <<"fix B">>
    /\ state["translation"] = <<"salut">>

\* the response is not parseable JSON, or is JSON that is not an object
Malformed(generated) ==
    LET loaded == json_loads(strip(generated))
    IN  loaded.raised \/ loaded.value.t # "dict"

\* C7 as stated: for every malformed generator response the eval step
\* returns evaluation_ok = false with evaluation_feedback containing the raw
\* response text, and the graph routes as for any other rejection.
C7_MalformedRejectedWithRawResponse ==
    (JustEvaluated /\ Malformed(lastResp)) =>
        /\ state["evaluation_ok"] = FALSE
        /\ In(lastResp, state["evaluation_feedback"])
        /\ pc = RejectionRoute

\* C7 (amended): for every malformed generator response the eval step
\* returns evaluation_ok = false with evaluation_feedback containing the
\* response text with its leading and trailing whitespace removed, and the
\* graph routes as for any other rejection.
C7_MalformedRejectedWithTrimmedResponse ==
    (JustEvaluated /\ Malformed(lastResp)) =>
        /\ state["evaluation_ok"] = FALSE
        /\ In(strip(lastResp), state["evaluation_feedback"])
        /\ pc = RejectionRoute

C7_Witness ==
    /\ JustEvaluated /\ lastResp = <<"[true]">>
    /\ state["evaluation_ok"] = FALSE
    /\ state["evaluation_feedback"] = <<"Evaluator output was not valid JSON:", " ", "[true]">>
    /\ pc = "translate_en"

\* the response is a JSON object whose ok field is present and not a boolean
OkNotBoolean(generated) ==
    LET loaded == json_loads(strip(generated))
    IN  /\ ~loaded.raised
        /\ loaded.value.t = "dict"
        /\ "ok" \in DOMAIN loaded.value.d
        /\ loaded.value.d["ok"].t # "bool"

\* C8: a response whose ok field is present but not a boolean is treated as
\* a parse failure: the eval step returns evaluation_ok = false, never an
\* acceptance.
C8_NonBooleanOkIsRejected ==
    (JustEvaluated /\ OkNotBoolean(lastResp)) => state["evaluation_ok"] = FALSE

\* C9: in every reachable state, evaluation_ok = true implies that
\* evaluation_feedback is the empty string.
C9_AcceptedMeansEmptyFeedback ==
    Get(state, "evaluation_ok", FALSE) => Get(state, "evaluation_feedback", <<>>) = <<>>

FrenchMarkers == {"法语", "法文", "french", "français"}
JapaneseMarkers == {"日语", "日文", "japanese", Nihongo}
EnglishMarkers == {"英语", "英文", "english"}

\* the query has a word that is one of the markers, upper or lower case
Mentions(query, markers) == \E i \in DOMAIN query : LowerChunk(query[i]) \in markers

\* C10: for every query with at least one rule keyword the Classifier returns
\* the code of the first matching language in the order French, Japanese,
\* English, and makes no fallback classification call.
C10_KeywordPriority ==
    LET query == input["query"] IN
    (pc # "intent"
       /\ (Mentions(query, FrenchMarkers) \/ Mentions(query, JapaneseMarkers)
             \/ Mentions(query, EnglishMarkers))) =>
        /\ state["target_lang"] =
             (IF Mentions(query, FrenchMarkers) THEN <<"fr">>
              ELSE IF Mentions(query, JapaneseMarkers) THEN <<"ja">>
              ELSE <<"en">>)
        /\ calls.classify = 0

C10_Witness ==
    /\ pc = "translate_ja"
    /\ Mentions(input["query"], JapaneseMarkers) /\ Mentions(input["query"], EnglishMarkers)
    /\ state["target_lang"] = <<"ja">> /\ calls.classify = 0 /\ calls.extract = 1

\* the query has a rule keyword
HasKeyword(query) ==
    Mentions(query, FrenchMarkers) \/ Mentions(query, JapaneseMarkers)
        \/ Mentions(query, EnglishMarkers)

\* C11: for every query with no matching keyword and every string the
\* fallback call returns, target_lang is one of en, ja, fr: the returned
\* token trimmed and lower-cased when that is one of the three codes, and en
\* otherwise.
C11_FallbackGivesValidCode ==
    (pc # "intent" /\ ~HasKeyword(input["query"])) =>
        LET token == lower(strip(lastClassified)) IN
        /\ calls.classify = 1
        /\ state["target_lang"] \in {<<"en">>, <<"ja">>, <<"fr">>}
        /\ token \in {<<"en">>, <<"ja">>, <<"fr">>} => state["target_lang"] = token
        /\ token \notin {<<"en">>, <<"ja">>, <<"fr">>} => state["target_lang"] = <<"en">>

C11_Witness ==
    /\ pc = "translate_ja" /\ ~HasKeyword(input["query"])
    /\ lastClassified = <<" ", "Ja", "\n">>
    /\ state["target_lang"] = <<"ja">>

TranslateNodes == {"translate_en", "translate_ja", "translate_fr"}

\* C12: the intent step runs exactly once and before any Translator or
\* Evaluator call: wherever a translate or eval step is due, target_lang and
\* source_text are set, target_lang is one of en, ja, fr and the translate
\* node due is the one of that language.
C12_IntentOnceAndFirst ==
    /\ pc = "intent" => (calls.extract = 0 /\ calls.translate = 0 /\ calls.eval = 0)
    /\ pc # "intent" => calls.extract = 1
    /\ pc \in TranslateNodes \cup {"eval"} =>
         /\ {"target_lang", "source_text"} \subseteq DOMAIN state
         /\ state["target_lang"] \in {<<"en">>, <<"ja">>, <<"fr">>}
    /\ pc \in TranslateNodes =>
         pc = (CASE state["target_lang"] = <<"en">> -> "translate_en"
                 [] state["target_lang"] = <<"ja">> -> "translate_ja"
                 [] state["target_lang"] = <<"fr">> -> "translate_fr")

C12_Witness ==
    /\ pc = "translate_fr" /\ calls.extract = 1 /\ calls.translate = 2 /\ calls.eval = 2
    /\ state["target_lang"] = <<"fr">> /\ state["source_text"] = <<"hello">>

\* the step changes no key of the state other than those in keys
ChangesOnly(keys) ==
    /\ DOMAIN state' = DOMAIN state \cup keys
    /\ \A k \in DOMAIN state \ keys : state'[k] = state[k]

\* C13: after the intent step no step changes query, source_text,
\* target_lang or max_attempts: a translate step changes only translation
\* and attempts, an eval step only evaluation_ok and evaluation_feedback.
C13_FrameOfTranslateAndEval ==
    [][/\ pc \in TranslateNodes => ChangesOnly({"translation", "attempts"})
       /\ pc = "eval" => ChangesOnly({"evaluation_ok", "evaluation_feedback"})
       /\ pc # "intent" =>
            \A k \in {"query", "source_text", "target_lang", "max_attempts"} :
                k \in DOMAIN state /\ state'[k] = state[k]]_vars

C13_Witness ==
    /\ pc = "eval" /\ calls.translate = 2
    /\ state["evaluation_feedback"] = <<"fix A">> /\ state["evaluation_ok"] = FALSE
    /\ state["translation"] = <<"salut">> /\ state["attempts"] = 2

ReviseMarker == "Revise using this feedback:\n"

\* the prompt has the revise-with-feedback shape
HasRevise(p) == \E i \in DOMAIN p : p[i] = ReviseMarker

\* the feedback a Translator prompt carries, empty for the first-pass shape
PromptFeedback(p) ==
    IF HasRevise(p)
    THEN LET i == CHOOSE j \in DOMAIN p : p[j] = ReviseMarker
         IN  SubSeq(p, i + 1, Len(p) - 1)
    ELSE <<>>

\* C14: every Translator call made on a retry carries exactly the feedback
\* of the immediately preceding Evaluator verdict (trimmed of surrounding
\* whitespace, as the Translator reads it), never that of an earlier cycle.
C14_RetryUsesLatestFeedback ==
    (pc = "eval" /\ verdicts # <<>>) =>
        /\ PromptFeedback(prompt) = strip(lastVerdict["evaluation_feedback"])
        /\ (prevVerdict # NoVerdict
              /\ strip(prevVerdict["evaluation_feedback"]) # strip(lastVerdict["evaluation_feedback"]))
             => PromptFeedback(prompt) # strip(prevVerdict["evaluation_feedback"])

C14_Witness ==
    /\ pc = "eval" /\ calls.translate = 3 /\ Len(verdicts) = 2
    /\ prevVerdict["evaluation_feedback"] = <<"fix A">>
    /\ lastVerdict["evaluation_feedback"] = <<"fix B">>
    /\ PromptFeedback(prompt) = <<"fix B">>

\* the session that results from running alone on input inp with the
\* generator contents of log, in order
RECURSIVE Replay(_, _)
Replay(sess, log) ==
    IF log = <<>> THEN sess ELSE Replay(node_step(sess, Head(log)), Tail(log))

Alone(inp, log) == Replay(NewSession(inp), log)

C16_TranslateEvalAlternate ==
    /\ [][(pc \in TranslateNodes) => (pc' = "eval")]_vars
    /\ [](/\ pc = "eval" => calls.translate = calls.eval + 1
          /\ pc # "eval" => calls.translate = calls.eval
          /\ pc = "end" =>
               /\ In(<<"Translation:\n">> \o state["translation"] \o <<"\n\n">>, evalPrompt)
               /\ state["translation"] = lastOutput
               /\ state["evaluation_ok"] = lastVerdict["evaluation_ok"]
               /\ state["evaluation_feedback"] = lastVerdict["evaluation_feedback"])

C16_Witness ==
    /\ pc = "end" /\ chosen = "translate_ja"
    /\ calls.translate = 3 /\ calls.eval = 3
    /\ state["translation"] = <<"salut">>
    /\ In(<<"Translation:\n", "salut", "\n\n">>, evalPrompt)

\* the intent step has just run
JustAfterIntent == pc \in TranslateNodes /\ calls.translate = 0

\* C17 as stated: for every session input the start -> intent transition
\* leaves attempts = 0, max_attempts the caller's value (3 when none is
\* supplied), evaluation_ok = false and evaluation_feedback = "".
C17_IntentInitialisesAttemptsToZero ==
    JustAfterIntent =>
        /\ state["attempts"] = 0
        /\ state["max_attempts"] = Get(input, "max_attempts", 3)
        /\ state["evaluation_ok"] = FALSE
        /\ state["evaluation_feedback"] = <<>>

\* C17 (amended): for every session input the start -> intent transition
\* leaves attempts equal to the value the caller supplied (0 when none is
\* supplied), max_attempts the caller's value (3 when none is supplied),
\* evaluation_ok = false and evaluation_feedback = "".
C17_IntentKeepsCallersAttempts ==
    JustAfterIntent =>
        /\ state["attempts"] = Get(input, "attempts", 0)
        /\ state["max_attempts"] = Get(input, "max_attempts", 3)
        /\ state["evaluation_ok"] = FALSE
        /\ state["evaluation_feedback"] = <<>>

C17_Witness ==
    /\ JustAfterIntent
    /\ DOMAIN input = {"query", "evaluation_feedback"}
    /\ input["evaluation_feedback"] = <<"stale">>
    /\ state["attempts"] = 0 /\ state["max_attempts"] = 3
    /\ state["evaluation_ok"] = FALSE /\ state["evaluation_feedback"] = <<>>

\* generation calls made so far, all call sites together
TotalCalls == calls.classify + calls.extract + calls.translate + calls.eval

\* C18: a session makes exactly one extraction call, one fallback
\* classification call when no keyword matches and none otherwise, one
\* generation call per Translator and per Evaluator invocation; a session
\* started from attempts = 0 that ends with attempts = n has made 1 + 2n
\* generation calls when a keyword matched and 2 + 2n otherwise.
C18_GenerationCallCount ==
    /\ pc # "intent" =>
         /\ calls.extract = 1
         /\ calls.classify = (IF HasKeyword(input["query"]) THEN 0 ELSE 1)
    /\ calls.translate = Attempts - Get(input, "attempts", 0)
    /\ calls.eval = Len(verdicts)
    /\ (pc = "end" /\ StartedAtZero) =>
         TotalCalls = (IF HasKeyword(input["query"]) THEN 1 ELSE 2) + 2 * state["attempts"]

C18_Witness ==
    /\ pc = "end" /\ StartedAtZero /\ ~HasKeyword(input["query"])
    /\ state["attempts"] = 3 /\ TotalCalls = 8

FirstPassPrompt ==
    <<"Text:\n">> \o state["source_text"] \o <<"\n\nTarget language: ">>
        \o (CASE chosen = "translate_en" -> <<"English">>
              [] chosen = "translate_ja" -> <<"Japanese">>
              [] chosen = "translate_fr" -> <<"French">>)
        \o <<"\n\nOutput only the translation.">>

\* C20: the Translator takes the revise-with-feedback shape if and only if
\* the trimmed evaluation_feedback is non-empty: the first call of every
\* session has the first-pass shape whatever the caller put in the input,
\* and so has a retry after a rejection with empty feedback, whose prompt is
\* identical to the first call's.
C20_PromptShapeFollowsFeedback ==
    pc = "eval" =>
        /\ HasRevise(prompt) <=> (strip(state["evaluation_feedback"]) # <<>>)
        /\ calls.translate = 1 => ~HasRevise(prompt)
        /\ ~HasRevise(prompt) => prompt = FirstPassPrompt
        /\ HasRevise(prompt) => PromptFeedback(prompt) = strip(state["evaluation_feedback"])

C20_Witness ==
    /\ pc = "eval" /\ calls.translate = 2
    /\ "evaluation_feedback" \in DOMAIN input
    /\ lastResp = <<"{\"ok\": false, \"feedback\": \" \"}">>
    /\ state["evaluation_ok"] = FALSE /\ state["evaluation_feedback"] = <<>>
    /\ prompt = FirstPassPrompt

====
